---- MODULE Spec2Model ----
(***************************************************************************)
(* ChainFund backend: the campaign document of app/routers (fund, proof    *)
(* submission, vote) as a state machine over one persisted campaign, with  *)
(* requests split at the awaits between find_one and update_one so that    *)
(* overlapping requests are behaviours of the model.                       *)
(***************************************************************************)
EXTENDS Integers, Sequences, FiniteSets, TLC

(***************************************************************************)
(* Python floats (IEEE-754 binary64).  An amount is a pair <<k, d>> that   *)
(* stands for the real number (k * 2^56 + d) / (10 * 2^56): k counts       *)
(* tenths and d is the distance from k/10 in units of 2^-56 / 10.  Every   *)
(* double that arises from adding a few decimal tenths has such a pair     *)
(* with a small d, and rounding to nearest-even can be computed on the     *)
(* pair with small integers only.                                          *)
(***************************************************************************)
RECURSIVE PowMod(_, _, _)
PowMod(b, n, m) == IF n = 0 THEN 1 % m ELSE (b * PowMod(b, n - 1, m)) % m

RECURSIVE Pow2(_)
Pow2(n) == IF n = 0 THEN 1 ELSE 2 * Pow2(n - 1)

\* the exponent of 2 in the unit of d
UnitBits == 56

\* <<k, d>> >= 0.1 * c  (c a non-negative integer number of tenths)
GeqTenths(x, c) == x[1] > c \/ (x[1] = c /\ x[2] >= 0)

\* <<k, d>> >= 2^(-s) for s >= 0: 2^s * N >= 10 * 2^56
GeqPow2Neg(x, s) ==
    LET a == Pow2(s) * x[1] - 10 IN a >= 1 \/ (a = 0 /\ x[2] >= 0)

\* j with 2^(j-4) <= x < 2^(j-3), for a positive x in [2^-4, 2^4)
Binade(x) ==
    IF GeqTenths(x, 80) THEN 7
    ELSE IF GeqTenths(x, 40) THEN 6
    ELSE IF GeqTenths(x, 20) THEN 5
    ELSE IF GeqTenths(x, 10) THEN 4
    ELSE IF GeqPow2Neg(x, 1) THEN 3
    ELSE IF GeqPow2Neg(x, 2) THEN 2
    ELSE IF GeqPow2Neg(x, 3) THEN 1
    ELSE 0

\* 2^56 modulo two ulps, per binade
UnitMod == [j \in 0..7 |-> PowMod(2, UnitBits, 20 * Pow2(j))]

\* round the exact value <<k, d>> to the nearest double, ties to even:
\* in binade j one ulp is 10 * 2^j of the units of d
RoundNearestEven(x) ==
    IF x[1] = 0 /\ x[2] = 0 THEN x
    ELSE
    LET j    == Binade(x)
        ulp  == 10 * Pow2(j)
        m2   == 2 * ulp
        n2   == ((x[1] * UnitMod[j]) + x[2] + 4 * m2) % m2
        r    == n2 % ulp
        down == <<x[1], x[2] - r>>
        up   == <<x[1], x[2] - r + ulp>>
    IN  IF r = 0 THEN x
        ELSE IF 2 * r < ulp THEN down
        ELSE IF 2 * r > ulp THEN up
        ELSE IF n2 < ulp THEN down ELSE up

\* the double a decimal literal k/10 parses to
Float(k) == RoundNearestEven(<<k, 0>>)

\* x + y on doubles
FloatAdd(x, y) == RoundNearestEven(<<x[1] + y[1], x[2] + y[2]>>)

\* x >= y on doubles
FloatGeq(x, y) == x[1] > y[1] \/ (x[1] = y[1] /\ x[2] >= y[2])

\* Python's sum(): left to right from 0
RECURSIVE FloatSum(_)
FloatSum(s) ==
    IF s = <<>> THEN <<0, 0>>
    ELSE FloatAdd(FloatSum(SubSeq(s, 1, Len(s) - 1)), s[Len(s)])

(***************************************************************************)
(* WalletIdentity (app/utils/signature.py)                                 *)
(***************************************************************************)
Null == "null"

\* the lower-case and the checksummed spelling of three accounts
Checksum ==
    [w \in {"0xaa", "0xAa", "0xbb", "0xBb", "0xcc", "0xCc"} |->
        CASE w \in {"0xaa", "0xAa"} -> "0xAa"
          [] w \in {"0xbb", "0xBb"} -> "0xBb"
          [] OTHER -> "0xCc"]

\* the wallet strings a request may carry: both spellings, and a malformed one
RawWallets == {"0xaa", "0xAa", "0xbb", "0xcc", "bad"}

validate_wallet_address(w) == w \in DOMAIN Checksum

normalize_wallet_address(w) == IF w \in DOMAIN Checksum THEN Checksum[w] ELSE w

(***************************************************************************)
(* Bounds and inputs                                                       *)
(***************************************************************************)
\* fund requests that write the campaign, per behaviour
MaxFunds == 2

\* the same where only fund requests are made
MaxFundsOnly == 3

\* milestones of the campaign
MaxMilestones == 2

\* requests that overlap with others, per behaviour
MaxStarted == 5

\* request amounts: 0.1, 0.2, 0.3
Amounts == {Float(1), Float(2), Float(3)}

\* request amounts at and across a tier threshold: 0.0, and 0.6 twice is 1.2
TierAmounts == {Float(0), Float(6)}

\* activities in a user's skill history
MaxHistory == 2

\* SkillActivityRequest.score_earned: a negative one, 100, and 750 (twice 750
\* is 1500, above the 1000 where the damping starts)
ScoresEarned == {0 - 100, 100, 750}

\* SkillActivityRequest.difficulty: the three of the table, one in capitals
\* and one that the table does not hold
Difficulties == {"easy", "medium", "hard", "Hard", "epic"}

\* SkillActivityRequest.peer_reviews
PeerReviews == {<<>>, <<5, 5>>, <<3>>}

\* skill scores in hundredths around every level boundary: 49.90 .. 50.10,
\* 199.90 .. 200.10, 499.90 .. 500.10, 999.90 .. 1000.10, and the far ends
LevelScores ==
    {0 - 2000, 0, 200000} \cup (4990..5010) \cup (19990..20010)
        \cup (49990..50010) \cup (99990..100010)

\* the double next below the double x, which lies in the binade whose ulp is
\* 10 * 2^j units
FloatPred(x, j) == <<x[1], x[2] - (10 * Pow2(j))>>

\* amounts around every tier threshold: 0.0, 0.1, ..., 12.0, then 49.5, 50.0,
\* 50.5 and 100.0, and the doubles next below 0.1, 1.0, 5.0, 10.0 and 50.0
TierInputs ==
    {Float(k) : k \in 0..120}
        \cup {<<495, 0>>, <<500, 0>>, <<505, 0>>, <<1000, 0>>}
        \cup {FloatPred(Float(1), 0), FloatPred(Float(10), 3), FloatPred(Float(50), 6),
              FloatPred(Float(100), 7), FloatPred(<<500, 0>>, 9)}

\* token ids that the skill NFT mint may return
TokenIds == {101, 102}

\* milestone_index path parameters: every position, and indices outside 0..n-1
Indices == (0 - (MaxMilestones + 1)) .. MaxMilestones

\* request handlers that may be in flight together
Procs == {1, 2}

\* the wallet strings of fund requests where only two accounts fund
TwoFunders == {"0xaa", "0xAa", "0xbb", "bad"}

\* the wallet strings of proof and vote requests: lower-case spellings of the
\* creator, of a second and of a third account, and a malformed one
Callers == {"0xaa", "0xbb", "0xcc", "bad"}

CampaignId == "cid1"
ContractAddress == "0xC1"
CampaignIds == {CampaignId, ContractAddress, "nope"}
IpfsHash == "Qm1"
TxHash == "0xtx"

(***************************************************************************)
(* create_campaign (app/routers/campaigns.py)                              *)
(***************************************************************************)
\* a variant that numbers the milestones from 1
MilestoneFromOne(i) ==
    [index |-> i + 1, title |-> "m", amount |-> Float(1), status |-> "pending",
     proof_ipfs |-> Null, votes |-> <<>>]

\* Milestone(index=i, ...) as create_campaign builds it
Milestone(i) ==
    [index |-> i, title |-> "m", amount |-> Float(1), status |-> "pending",
     proof_ipfs |-> Null, votes |-> <<>>]

\* request.goal_amount: 0.1, which the second funding of 0.1 exceeds
GoalAmount == Float(1)

create_campaign(creator_wallet, n) ==
    [id |-> CampaignId,
     creator_wallet |-> normalize_wallet_address(creator_wallet),
     goal_amount |-> GoalAmount,
     contract_address |-> ContractAddress,
     milestones |-> [i \in 1..n |-> Milestone(i - 1)],
     backers |-> <<>>,
     total_backed |-> <<0, 0>>,
     status |-> "active"]

(***************************************************************************)
(* State                                                                   *)
(***************************************************************************)
VARIABLES
    campaign,     \* the persisted campaign document
    nfts,         \* the persisted nfts collection
    req,          \* per handler: where it stands and what its find_one returned
    lastResp,     \* the response of the request that ended last
    fundsDone,    \* fund requests that wrote the campaign so far
    user,         \* the persisted document of the registered user
    released,     \* per milestone position: release_milestone calls made so far
    call,         \* a call of a resolver function: its argument and its result
    started       \* requests that went on past their find_one in a step of their own

vars == <<campaign, nfts, req, lastResp, fundsDone, user, released, call, started>>

\* a request as sent
NoReq == [wallet |-> Null, index |-> 0, vote |-> FALSE, amount |-> <<0, 0>>]

FundReq(backer_wallet, amount) == [NoReq EXCEPT !.wallet = backer_wallet, !.amount = amount]

ProofReq(creator_wallet, milestone_index) ==
    [NoReq EXCEPT !.wallet = creator_wallet, !.index = milestone_index]

VoteReq(backer_wallet, milestone_index, vote) ==
    [NoReq EXCEPT !.wallet = backer_wallet, !.index = milestone_index, !.vote = vote]

\* a handler: idle, or past its checks with the request and the document read
Idle == [pc |-> "idle", request |-> NoReq, doc |-> <<>>]

\* a response; request is the request it answers when that passed the checks,
\* printed is what the handler printed on the way, effects are the calls it
\* made on the way: "chain" (ChainGateway fund or release), "upload"
\* (ObjectStorageGateway), "write" (update_one), "mint" (the NFT mint)
NoResp ==
    [op |-> "none", code |-> 0, detail |-> Null, milestone_status |-> Null,
     transaction_hash |-> Null, nft_token_id |-> 0, request |-> NoReq,
     printed |-> Null, effects |-> {}, new_skill_score |-> 0, new_skill_level |-> Null]

Resp(op, code, detail) == [NoResp EXCEPT !.op = op, !.code = code, !.detail = detail]

\* the user as User.find_one returns it after register_user: the fields that
\* register_user does not store take the defaults of the User model
RegisteredUser ==
    [wallet_address |-> normalize_wallet_address("0xaa"),
     skill_score |-> 0, skill_level |-> "Beginner", skill_nft_token_id |-> 0,
     skill_history |-> <<>>,
     total_milestones_completed |-> 0, total_campaigns_participated |-> 0]

\* no resolver call
NoCall == [fn |-> "none", arg |-> 0, result |-> Null]

\* the documents and the handlers after construction
InitDocs ==
    /\ user = RegisteredUser
    /\ campaign \in {create_campaign("0xaa", n) : n \in 1..MaxMilestones}
    /\ nfts = <<>>
    /\ req = [p \in Procs |-> Idle]
    /\ lastResp = NoResp
    /\ fundsDone = 0
    /\ released = [k \in 1..MaxMilestones |-> 0]
    /\ started = 0

Init ==
    /\ InitDocs
    /\ call = NoCall

\* a variant where the proof file is uploaded before the milestone's status is
\* looked at
EffectsAtRejectStatusLate(resp) ==
    IF resp.detail = "Milestone is not in pending state" THEN {"upload"} ELSE {}

\* the calls a handler has made when one of its checks stops the request: the
\* checks all come before the first call
EffectsAtReject(resp) == {}

\* the response of a request that a check stopped
Rejected(resp) == [resp EXCEPT !.effects = EffectsAtReject(resp)]

\* find_one by _id, then by contract_address
FindCampaign(cid) == cid = campaign.id \/ cid = campaign.contract_address

\* position (from 1) of the first element of s with that wallet_address, or 0
RECURSIVE FindWallet(_, _)
FindWallet(s, w) ==
    IF s = <<>> THEN 0
    ELSE IF Head(s).wallet_address = w THEN 1
    ELSE LET r == FindWallet(Tail(s), w) IN IF r = 0 THEN 0 ELSE r + 1

\* Python list indexing: the position (from 1) of s[i], or 0 for IndexError
PyIndex(n, i) ==
    IF i >= 0 THEN (IF i < n THEN i + 1 ELSE 0)
    ELSE (IF n + i >= 0 THEN n + i + 1 ELSE 0)

(***************************************************************************)
(* NFTTierResolver (app/services/nft_service.py)                           *)
(***************************************************************************)
\* tier_thresholds: 0.1, 1.0, 5.0, 10.0, 50.0
tier_thresholds ==
    [Bronze |-> Float(1), Silver |-> Float(10), Gold |-> Float(50),
     Platinum |-> Float(100), Diamond |-> Float(500)]

\* a variant whose Silver threshold is exclusive
determine_tierStrict(amount) ==
    IF FloatGeq(amount, tier_thresholds.Diamond) THEN "Diamond"
    ELSE IF FloatGeq(amount, tier_thresholds.Platinum) THEN "Platinum"
    ELSE IF FloatGeq(amount, tier_thresholds.Gold) THEN "Gold"
    ELSE IF amount # tier_thresholds.Silver /\ FloatGeq(amount, tier_thresholds.Silver)
      THEN "Silver"
    ELSE IF FloatGeq(amount, tier_thresholds.Bronze) THEN "Bronze"
    ELSE "Supporter"

\* determine_tier: the descending scan of tier_thresholds, first match wins
determine_tier(amount) ==
    IF FloatGeq(amount, tier_thresholds.Diamond) THEN "Diamond"
    ELSE IF FloatGeq(amount, tier_thresholds.Platinum) THEN "Platinum"
    ELSE IF FloatGeq(amount, tier_thresholds.Gold) THEN "Gold"
    ELSE IF FloatGeq(amount, tier_thresholds.Silver) THEN "Silver"
    ELSE IF FloatGeq(amount, tier_thresholds.Bronze) THEN "Bronze"
    ELSE "Supporter"

\* mint_nft_for_backer: the record it inserts
NftRecord(campaign_id, backer_wallet, amount) ==
    [campaign_id |-> campaign_id, owner_wallet |-> backer_wallet,
     tier |-> determine_tier(amount), amount_backed |-> amount, token_id |-> 1]

\* a variant that lets the failure of the mint out to the caller
mint_nft_for_backerRaises(campaign_id, backer_wallet, amount, mintOK) ==
    [outcome |-> IF mintOK THEN "minted" ELSE "raised",
     record |-> NftRecord(campaign_id, backer_wallet, amount)]

\* mint_nft_for_backer: what it returns, the record inserted ("minted") or
\* None after a failure that it catches and prints ("none")
mint_nft_for_backer(campaign_id, backer_wallet, amount, mintOK) ==
    [outcome |-> IF mintOK THEN "minted" ELSE "none",
     record |-> NftRecord(campaign_id, backer_wallet, amount)]

(***************************************************************************)
(* fund_campaign (app/routers/funding.py)                                  *)
(***************************************************************************)
\* a variant that takes a campaign whose goal is reached as not active
FundChecksGoalReached(cid, backer_wallet) ==
    IF ~validate_wallet_address(backer_wallet)
      THEN Resp("fund", 400, "Invalid backer wallet address")
    ELSE IF ~FindCampaign(cid)
      THEN Resp("fund", 404, "Campaign not found")
    ELSE IF campaign.status # "active" \/ FloatGeq(campaign.total_backed, campaign.goal_amount)
      THEN Resp("fund", 400, "Campaign is not active")
    ELSE IF campaign.contract_address = Null
      THEN Resp("fund", 400, "Campaign contract not deployed")
    ELSE NoResp

\* the checks before the chain call: the error response, or NoResp to go on
FundChecks(cid, backer_wallet) ==
    IF ~validate_wallet_address(backer_wallet)
      THEN Resp("fund", 400, "Invalid backer wallet address")
    ELSE IF ~FindCampaign(cid)
      THEN Resp("fund", 404, "Campaign not found")
    ELSE IF campaign.status # "active"
      THEN Resp("fund", 400, "Campaign is not active")
    ELSE IF campaign.contract_address = Null
      THEN Resp("fund", 400, "Campaign contract not deployed")
    ELSE NoResp
\* a variant that appends an entry on every funding
FundBackersAppend(backers, normalized_backer, amount) ==
    Append(backers, [wallet_address |-> normalized_backer, amount_backed |-> amount])

\* a variant that books the amount on the list persisted at the time of the
\* write, not on the list read
FundBackersFresh(backers, normalized_backer, amount) ==
    LET k == FindWallet(campaign.backers, normalized_backer) IN
    IF k # 0
      THEN [campaign.backers EXCEPT ![k].amount_backed = FloatAdd(@, amount)]
      ELSE Append(campaign.backers,
                  [wallet_address |-> normalized_backer, amount_backed |-> amount])

\* the backers list after the request's amount is booked on the list read
FundBackers(backers, normalized_backer, amount) ==
    LET k == FindWallet(backers, normalized_backer) IN
    IF k # 0
      THEN [backers EXCEPT ![k].amount_backed = FloatAdd(@, amount)]
      ELSE Append(backers, [wallet_address |-> normalized_backer, amount_backed |-> amount])

\* a variant that mints although the chain call failed
FundMintsAlways(chainOK) == TRUE

\* whether the request goes on to update_one and to the NFT mint: the chain
\* call returned
FundMints(chainOK) == chainOK

\* everything after the checks, on the document doc that find_one returned:
\* the chain call, the update_one of backers and total_backed, the NFT mint
FundFinish(doc, request, chainOK, mintOK) ==
    \E normalized_backer \in {normalize_wallet_address(request.wallet)} :
    \E nft \in {mint_nft_for_backer(doc.id, normalized_backer, request.amount, mintOK)} :
    LET minted == FundMints(chainOK) /\ nft.outcome = "minted"
        mintEffect == IF FundMints(chainOK) THEN {"mint"} ELSE {}
    IN
    /\ UNCHANGED released
    /\ fundsDone' = fundsDone + (IF chainOK THEN 1 ELSE 0)
    /\ nfts' = IF minted THEN Append(nfts, nft.record) ELSE nfts
    /\ IF ~chainOK
         THEN /\ lastResp' = [Resp("fund", 500, "Funding failed") EXCEPT
                                 !.request = request,
                                 !.nft_token_id = IF minted THEN nft.record.token_id ELSE 0,
                                 !.effects = {"chain"} \cup mintEffect]
              /\ UNCHANGED campaign
         ELSE /\ campaign' =
                    [campaign EXCEPT
                        !.backers = FundBackers(doc.backers, normalized_backer, request.amount),
                        !.total_backed = FloatAdd(doc.total_backed, request.amount)]
              /\ lastResp' =
                    IF nft.outcome = "raised"
                      THEN [Resp("fund", 500, "Funding failed") EXCEPT
                               !.request = request,
                               !.effects = {"chain", "write"} \cup mintEffect]
                      ELSE [Resp("fund", 200, "Campaign funded successfully") EXCEPT
                               !.transaction_hash = TxHash,
                               !.nft_token_id = IF minted THEN nft.record.token_id ELSE 0,
                               !.request = request,
                               !.printed = IF minted THEN Null ELSE "Error minting NFT",
                               !.effects = {"chain", "write"} \cup mintEffect]

\* one fund request from start to end, no other request in between
fund_campaign(cid, backer_wallet, amount, chainOK, mintOK) ==
    /\ UNCHANGED <<user, call, started>>
    /\ \A p \in Procs : req[p].pc = "idle"
    /\ UNCHANGED req
    /\ IF FundChecks(cid, backer_wallet) # NoResp
         THEN /\ lastResp' = Rejected(FundChecks(cid, backer_wallet))
              /\ UNCHANGED <<campaign, nfts, fundsDone, released>>
         ELSE FundFinish(campaign, FundReq(backer_wallet, amount), chainOK, mintOK)

\* the same request in two steps: up to find_one and the checks ...
FundLoad(p, cid, backer_wallet, amount) ==
    /\ UNCHANGED <<user, call>>
    /\ req[p].pc = "idle"
    /\ UNCHANGED <<campaign, nfts, fundsDone, released>>
    /\ IF FundChecks(cid, backer_wallet) # NoResp
         THEN /\ lastResp' = Rejected(FundChecks(cid, backer_wallet))
              /\ UNCHANGED <<req, started>>
         ELSE /\ req' = [req EXCEPT ![p] =
                     [pc |-> "fund", request |-> FundReq(backer_wallet, amount),
                      doc |-> campaign]]
              /\ started' = started + 1
              /\ UNCHANGED lastResp

\* ... and from the chain call on
FundComplete(p, chainOK, mintOK) ==
    /\ UNCHANGED <<user, call, started>>
    /\ req[p].pc = "fund"
    /\ req' = [req EXCEPT ![p] = Idle]
    /\ FundFinish(req[p].doc, req[p].request, chainOK, mintOK)

(***************************************************************************)
(* submit_milestone_proof (app/routers/milestones.py)                      *)
(***************************************************************************)
\* a variant without the creator check
ProofChecksAnyCaller(cid, creator_wallet, milestone_index) ==
    LET n == Len(campaign.milestones)
        k == PyIndex(n, milestone_index)
    IN
    IF ~validate_wallet_address(creator_wallet)
      THEN Resp("proof", 400, "Valid creator wallet address required")
    ELSE IF ~FindCampaign(cid)
      THEN Resp("proof", 404, "Campaign not found")
    ELSE IF milestone_index >= n
      THEN Resp("proof", 400, "Invalid milestone index")
    ELSE IF k = 0
      THEN Resp("proof", 500, "Proof submission failed")
    ELSE IF campaign.milestones[k].status # "pending"
      THEN Resp("proof", 400, "Milestone is not in pending state")
    ELSE NoResp

\* the checks before the upload: the error response, or NoResp to go on
ProofChecks(cid, creator_wallet, milestone_index) ==
    LET n == Len(campaign.milestones)
        k == PyIndex(n, milestone_index)
    IN
    IF ~validate_wallet_address(creator_wallet)
      THEN Resp("proof", 400, "Valid creator wallet address required")
    ELSE IF ~FindCampaign(cid)
      THEN Resp("proof", 404, "Campaign not found")
    ELSE IF campaign.creator_wallet # normalize_wallet_address(creator_wallet)
      THEN Resp("proof", 403, "Only campaign creator can submit proof")
    ELSE IF milestone_index >= n
      THEN Resp("proof", 400, "Invalid milestone index")
    ELSE IF k = 0
      THEN Resp("proof", 500, "Proof submission failed")
    ELSE IF campaign.milestones[k].status # "pending"
      THEN Resp("proof", 400, "Milestone is not in pending state")
    ELSE NoResp

\* ipfs_service.upload_file: the content address, or None
upload_file(uploadOK) == IF uploadOK THEN IpfsHash ELSE Null

\* a variant that does not look at what upload_file returned
UploadFailedNever(ipfs_hash) == FALSE

\* if not ipfs_hash
UploadFailed(ipfs_hash) == ipfs_hash = Null

\* a variant whose update_one writes the whole document it read
ProofFinishWholeDocument(doc, request, uploadOK) ==
    /\ UNCHANGED <<nfts, fundsDone, released>>
    /\ IF UploadFailed(upload_file(uploadOK))
         THEN /\ lastResp' = [Resp("proof", 500, "Failed to upload proof to IPFS")
                                 EXCEPT !.request = request, !.effects = {"upload"}]
              /\ UNCHANGED campaign
         ELSE LET k == PyIndex(Len(doc.milestones), request.index) IN
              /\ campaign' =
                    [doc EXCEPT !.milestones =
                        [doc.milestones EXCEPT ![k].proof_ipfs = upload_file(uploadOK),
                                               ![k].status = "submitted"]]
              /\ lastResp' = [Resp("proof", 200, "Proof submitted successfully")
                                 EXCEPT !.request = request,
                                        !.effects = {"upload", "write"}]

\* everything after the checks, on the document doc that find_one returned:
\* the upload and the update_one of milestones
ProofFinish(doc, request, uploadOK) ==
    /\ UNCHANGED <<nfts, fundsDone, released>>
    /\ IF UploadFailed(upload_file(uploadOK))
         THEN /\ lastResp' = [Resp("proof", 500, "Failed to upload proof to IPFS")
                                 EXCEPT !.request = request, !.effects = {"upload"}]
              /\ UNCHANGED campaign
         ELSE LET k == PyIndex(Len(doc.milestones), request.index) IN
              /\ campaign' =
                    [campaign EXCEPT !.milestones =
                        [doc.milestones EXCEPT ![k].proof_ipfs = upload_file(uploadOK),
                                               ![k].status = "submitted"]]
              /\ lastResp' = [Resp("proof", 200, "Proof submitted successfully")
                                 EXCEPT !.request = request,
                                        !.effects = {"upload", "write"}]

\* one proof submission from start to end, no other request in between
submit_milestone_proof(cid, creator_wallet, milestone_index, uploadOK) ==
    /\ UNCHANGED <<user, call, started>>
    /\ \A p \in Procs : req[p].pc = "idle"
    /\ UNCHANGED req
    /\ IF ProofChecks(cid, creator_wallet, milestone_index) # NoResp
         THEN /\ lastResp' = Rejected(ProofChecks(cid, creator_wallet, milestone_index))
              /\ UNCHANGED <<campaign, nfts, fundsDone, released>>
         ELSE ProofFinish(campaign, ProofReq(creator_wallet, milestone_index), uploadOK)

\* the same request in two steps: up to find_one and the checks ...
ProofLoad(p, cid, creator_wallet, milestone_index) ==
    /\ UNCHANGED <<user, call>>
    /\ req[p].pc = "idle"
    /\ UNCHANGED <<campaign, nfts, fundsDone, released>>
    /\ IF ProofChecks(cid, creator_wallet, milestone_index) # NoResp
         THEN /\ lastResp' = Rejected(ProofChecks(cid, creator_wallet, milestone_index))
              /\ UNCHANGED <<req, started>>
         ELSE /\ req' = [req EXCEPT ![p] =
                     [pc |-> "proof", request |-> ProofReq(creator_wallet, milestone_index),
                      doc |-> campaign]]
              /\ started' = started + 1
              /\ UNCHANGED lastResp

\* ... and from the upload on
ProofComplete(p, uploadOK) ==
    /\ UNCHANGED <<user, call, started>>
    /\ req[p].pc = "proof"
    /\ req' = [req EXCEPT ![p] = Idle]
    /\ ProofFinish(req[p].doc, req[p].request, uploadOK)

(***************************************************************************)
(* vote_on_milestone (app/routers/votes.py)                                *)
(***************************************************************************)
\* a variant without the backer check
VoteChecksAnyVoter(cid, backer_wallet, milestone_index) ==
    LET n == Len(campaign.milestones)
        k == PyIndex(n, milestone_index)
    IN
    IF ~validate_wallet_address(backer_wallet)
      THEN Resp("vote", 400, "Invalid backer wallet address")
    ELSE IF ~FindCampaign(cid)
      THEN Resp("vote", 404, "Campaign not found")
    ELSE IF milestone_index >= n
      THEN Resp("vote", 400, "Invalid milestone index")
    ELSE IF k = 0
      THEN Resp("vote", 500, "Voting failed")
    ELSE IF campaign.milestones[k].status # "submitted"
      THEN Resp("vote", 400, "Milestone is not in submitted state")
    ELSE NoResp

\* a variant without the check of the milestone's status
VoteChecksAnyStatus(cid, backer_wallet, milestone_index) ==
    LET n == Len(campaign.milestones)
        k == PyIndex(n, milestone_index)
    IN
    IF ~validate_wallet_address(backer_wallet)
      THEN Resp("vote", 400, "Invalid backer wallet address")
    ELSE IF ~FindCampaign(cid)
      THEN Resp("vote", 404, "Campaign not found")
    ELSE IF FindWallet(campaign.backers, normalize_wallet_address(backer_wallet)) = 0
      THEN Resp("vote", 403, "Only campaign backers can vote")
    ELSE IF milestone_index >= n
      THEN Resp("vote", 400, "Invalid milestone index")
    ELSE IF k = 0
      THEN Resp("vote", 500, "Voting failed")
    ELSE NoResp

\* the checks before the vote is recorded: the error response, or NoResp
VoteChecks(cid, backer_wallet, milestone_index) ==
    LET n == Len(campaign.milestones)
        k == PyIndex(n, milestone_index)
    IN
    IF ~validate_wallet_address(backer_wallet)
      THEN Resp("vote", 400, "Invalid backer wallet address")
    ELSE IF ~FindCampaign(cid)
      THEN Resp("vote", 404, "Campaign not found")
    ELSE IF FindWallet(campaign.backers, normalize_wallet_address(backer_wallet)) = 0
      THEN Resp("vote", 403, "Only campaign backers can vote")
    ELSE IF milestone_index >= n
      THEN Resp("vote", 400, "Invalid milestone index")
    ELSE IF k = 0
      THEN Resp("vote", 500, "Voting failed")
    ELSE IF campaign.milestones[k].status # "submitted"
      THEN Resp("vote", 400, "Milestone is not in submitted state")
    ELSE NoResp
\* a variant that appends every vote
RecordVoteAppend(votes, normalized_backer, vote) ==
    Append(votes, [wallet_address |-> normalized_backer, vote |-> vote])

\* the votes list after the request's vote is recorded on the list read
RecordVote(votes, normalized_backer, vote) ==
    LET k == FindWallet(votes, normalized_backer) IN
    IF k # 0
      THEN [votes EXCEPT ![k].vote = vote]
      ELSE Append(votes, [wallet_address |-> normalized_backer, vote |-> vote])

\* sum(1 for vote in votes if vote["vote"])
ApproveVotes(votes) == Cardinality({i \in 1..Len(votes) : votes[i].vote})
\* a variant that takes half of the votes, rounded up, for a majority
ApprovalThresholdHalf(total_votes) == (total_votes + 1) \div 2

\* total_votes // 2 + 1
ApprovalThreshold(total_votes) == (total_votes \div 2) + 1
\* a variant that leaves the release to a later operation
ReleaseCalledLater(status, is_approved, contract_address) == FALSE

\* whether release_milestone is called: the vote approves a submitted
\* milestone of a campaign that has a contract address
ReleaseCalled(status, is_approved, contract_address) ==
    is_approved /\ status = "submitted" /\ contract_address # Null
\* a variant that rejects the milestone when the tally does not approve it
StatusAfterVoteRejects(status, is_approved, called, releaseOK) ==
    IF is_approved /\ status = "submitted"
      THEN (IF called /\ releaseOK THEN "completed" ELSE "approved")
      ELSE "rejected"

\* a variant that rolls the approval back when the release call fails
StatusAfterVoteRollback(status, is_approved, called, releaseOK) ==
    IF is_approved /\ status = "submitted"
      THEN (IF called /\ releaseOK THEN "completed"
            ELSE IF called THEN "submitted" ELSE "approved")
      ELSE status

\* the milestone's status after the tally and the release call
StatusAfterVote(status, is_approved, called, releaseOK) ==
    IF is_approved /\ status = "submitted"
      THEN (IF called /\ releaseOK THEN "completed" ELSE "approved")
      ELSE status

\* everything after the checks, on the document doc that find_one returned:
\* the vote, the tally, the release call and the update_one of milestones
VoteFinish(doc, request, releaseOK) ==
    LET k == PyIndex(Len(doc.milestones), request.index)
        milestone == doc.milestones[k]
        votes == RecordVote(milestone.votes, normalize_wallet_address(request.wallet),
                            request.vote)
        is_approved == ApproveVotes(votes) >= ApprovalThreshold(Len(votes))
        called == ReleaseCalled(milestone.status, is_approved, doc.contract_address)
        status == StatusAfterVote(milestone.status, is_approved, called, releaseOK)
    IN
    /\ UNCHANGED <<nfts, fundsDone>>
    /\ released' = IF called THEN [released EXCEPT ![k] = @ + 1] ELSE released
    /\ campaign' =
          [campaign EXCEPT !.milestones =
              [doc.milestones EXCEPT ![k].votes = votes, ![k].status = status]]
    /\ lastResp' =
          [Resp("vote", 200, "Vote recorded successfully") EXCEPT
              !.milestone_status = status,
              !.transaction_hash = IF called /\ releaseOK THEN TxHash ELSE Null,
              !.request = request,
              !.printed = IF called /\ ~releaseOK
                            THEN "Failed to release milestone funds" ELSE Null,
              !.effects = IF called THEN {"chain", "write"} ELSE {"write"}]

\* one vote request from start to end, no other request in between
vote_on_milestone(cid, backer_wallet, milestone_index, vote, releaseOK) ==
    /\ UNCHANGED <<user, call, started>>
    /\ \A p \in Procs : req[p].pc = "idle"
    /\ UNCHANGED req
    /\ IF VoteChecks(cid, backer_wallet, milestone_index) # NoResp
         THEN /\ lastResp' = Rejected(VoteChecks(cid, backer_wallet, milestone_index))
              /\ UNCHANGED <<campaign, nfts, fundsDone, released>>
         ELSE VoteFinish(campaign, VoteReq(backer_wallet, milestone_index, vote), releaseOK)

\* the same request in two steps: up to find_one and the checks ...
VoteLoad(p, cid, backer_wallet, milestone_index, vote) ==
    /\ UNCHANGED <<user, call>>
    /\ req[p].pc = "idle"
    /\ UNCHANGED <<campaign, nfts, fundsDone, released>>
    /\ IF VoteChecks(cid, backer_wallet, milestone_index) # NoResp
         THEN /\ lastResp' = Rejected(VoteChecks(cid, backer_wallet, milestone_index))
              /\ UNCHANGED <<req, started>>
         ELSE /\ req' = [req EXCEPT ![p] =
                     [pc |-> "vote", request |-> VoteReq(backer_wallet, milestone_index, vote),
                      doc |-> campaign]]
              /\ started' = started + 1
              /\ UNCHANGED lastResp

\* ... and from the tally on
VoteComplete(p, releaseOK) ==
    /\ UNCHANGED <<user, call, started>>
    /\ req[p].pc = "vote"
    /\ req' = [req EXCEPT ![p] = Idle]
    /\ VoteFinish(req[p].doc, req[p].request, releaseOK)

(***************************************************************************)
(* SkillScoreEngine (app/services/skill_score_service.py)                  *)
(*                                                                         *)
(* Scores are counted in hundredths (a skill_score of 220.0 is 22000); the *)
(* sum inside calculate_skill_score is counted in units of 0.0001.  The    *)
(* activities of the model have whole score_earned and review values, so   *)
(* every product is a whole number of these units and the rounding error   *)
(* of the float operations (below 1e-12) cannot move round(total, 2).      *)
(***************************************************************************)
\* a * b / 10^8 for a, b >= 0 counted in units of 10^-8, rounded
MulScaled(a, b) ==
    LET a1 == a \div 10000
        a0 == a % 10000
        b1 == b \div 10000
        b0 == b % 10000
    IN  (a1 * b1) + (((a1 * b0) + (a0 * b1) + (((a0 * b0) + 5000) \div 10000) + 5000) \div 10000)

\* num / den for 0 <= num < den, in units of 10^-8: long division, digit by digit
RECURSIVE DivDigits(_, _, _, _)
DivDigits(r, den, q, i) ==
    IF i = 0
      THEN q + (IF 2 * r >= den THEN 1 ELSE 0)
      ELSE DivDigits((r * 10) % den, den, (q * 10) + ((r * 10) \div den), i - 1)

\* the largest d * 2^k <= n, as <<d * 2^k, k>>
RECURSIVE Reduce(_, _, _)
Reduce(n, d, k) == IF 2 * d <= n THEN Reduce(n, 2 * d, k + 1) ELSE <<d, k>>

\* z + z^3/3 + z^5/5 + ... from the term t = z^(2j+1) on, nine terms in all
RECURSIVE AtanhSum(_, _, _)
AtanhSum(t, z2, j) ==
    IF j = 9 THEN 0
    ELSE ((t + j) \div ((2 * j) + 1)) + AtanhSum(MulScaled(t, z2), z2, j + 1)

\* ln 2 in units of 10^-8
Ln2 == 69314718

\* math.log(n / 10000) in units of 10^-8, for n >= 10000:
\* n / 10000 = 2^k * m with 1 <= m < 2, ln m = 2 atanh((m - 1) / (m + 1))
Log(n) ==
    LET dk == Reduce(n, 10000, 0)
        z == DivDigits(n - dk[1], n + dk[1], 0, 8)
    IN  (dk[2] * Ln2) + (2 * AtanhSum(z, MulScaled(z, z), 0))

\* a / d rounded to the nearest whole number, halves to even
RoundDiv(a, d) ==
    LET q == a \div d
        r == a % d
    IN  IF 2 * r > d \/ (2 * r = d /\ q % 2 = 1) THEN q + 1 ELSE q

\* difficulty.lower()
Lower(difficulty) ==
    IF difficulty = "Hard" THEN "hard"
    ELSE IF difficulty = "Medium" THEN "medium"
    ELSE difficulty

\* a variant whose table gives medium the weight of easy
get_difficulty_multiplierFlat(difficulty) ==
    IF Lower(difficulty) = "hard" THEN 20 ELSE 10

\* _get_difficulty_multiplier, in tenths: easy 1.0, medium 1.5, hard 2.0, else 1.0
get_difficulty_multiplier(difficulty) ==
    IF Lower(difficulty) = "easy" THEN 10
    ELSE IF Lower(difficulty) = "medium" THEN 15
    ELSE IF Lower(difficulty) = "hard" THEN 20
    ELSE 10

RECURSIVE SumSeq(_)
SumSeq(q) == IF q = <<>> THEN 0 ELSE Head(q) + SumSeq(Tail(q))

\* activity_score in units of 0.0001:
\* score_earned * difficulty_multiplier * timeliness_bonus * (peer_review_avg / 5.0)
ActivityScore(activity) ==
    LET timeliness_bonus == IF activity.on_time_completion THEN 11 ELSE 10
        reviews == IF activity.peer_reviews = <<>> THEN <<1>> ELSE activity.peer_reviews
    IN  RoundDiv(activity.score_earned * get_difficulty_multiplier(activity.difficulty_rating)
                    * timeliness_bonus * SumSeq(reviews) * 20,
                 Len(reviews))

\* total_score after the loop, in units of 0.0001
RECURSIVE TotalScore(_)
TotalScore(skill_history) ==
    IF skill_history = <<>> THEN 0
    ELSE TotalScore(SubSeq(skill_history, 1, Len(skill_history) - 1))
            + ActivityScore(skill_history[Len(skill_history)])

\* calculate_skill_score, in hundredths
calculate_skill_score(skill_history) ==
    LET total_score == TotalScore(skill_history) IN
    IF skill_history = <<>> THEN 0
    ELSE IF total_score > 10000000
      THEN 100000 + RoundDiv(Log(total_score - 9990000), 10000)
      ELSE RoundDiv(total_score, 100)

\* a variant whose Intermediate boundary is exclusive
determine_skill_levelStrict(skill_score) ==
    IF skill_score >= 100000 THEN "Expert"
    ELSE IF skill_score >= 50000 THEN "Advanced"
    ELSE IF skill_score > 20000 THEN "Intermediate"
    ELSE IF skill_score >= 5000 THEN "Beginner"
    ELSE "Novice"

\* determine_skill_level, on a score in hundredths
determine_skill_level(skill_score) ==
    IF skill_score >= 100000 THEN "Expert"
    ELSE IF skill_score >= 50000 THEN "Advanced"
    ELSE IF skill_score >= 20000 THEN "Intermediate"
    ELSE IF skill_score >= 5000 THEN "Beginner"
    ELSE "Novice"

\* float('inf'), above every score
Inf == 2147483647

\* the thresholds table of get_next_level_threshold, in hundredths
thresholds ==
    [Novice |-> 5000, Beginner |-> 20000, Intermediate |-> 50000,
     Advanced |-> 100000, Expert |-> Inf]

\* get_next_level_threshold: the threshold above the level of the score
get_next_level_threshold(current_score) ==
    LET current_level == determine_skill_level(current_score)
    IN  IF current_level \in DOMAIN thresholds THEN thresholds[current_level] ELSE Inf

\* get_skill_score_data on the user found: the level is the stored one, the
\* next threshold is computed from the stored score
get_skill_score_data(u) ==
    [wallet_address |-> u.wallet_address,
     skill_score |-> u.skill_score,
     skill_level |-> u.skill_level,
     skill_nft_token_id |-> u.skill_nft_token_id,
     total_milestones_completed |-> u.total_milestones_completed,
     total_campaigns_participated |-> u.total_campaigns_participated,
     next_level_threshold |-> get_next_level_threshold(u.skill_score)]

\* a variant that scores the history as it was before the new activity
AddActivityScoresBefore(u, activity) ==
    LET skill_history == Append(u.skill_history, activity)
        skill_score == calculate_skill_score(u.skill_history)
    IN  [u EXCEPT
            !.skill_history = skill_history,
            !.total_milestones_completed = @ + 1,
            !.total_campaigns_participated =
                Cardinality({skill_history[i].campaign_id : i \in 1..Len(skill_history)}),
            !.skill_score = skill_score,
            !.skill_level = determine_skill_level(skill_score)]

\* SkillScoreService.add_skill_activity on the user found: the user it saves
AddActivity(u, activity) ==
    LET skill_history == Append(u.skill_history, activity)
        skill_score == calculate_skill_score(skill_history)
    IN  [u EXCEPT
            !.skill_history = skill_history,
            !.total_milestones_completed = @ + 1,
            !.total_campaigns_participated =
                Cardinality({skill_history[i].campaign_id : i \in 1..Len(skill_history)}),
            !.skill_score = skill_score,
            !.skill_level = determine_skill_level(skill_score)]

\* the SkillHistory entry made of a SkillActivityRequest
SkillHistory(campaign_id, score_earned, difficulty, on_time, peer_reviews) ==
    [campaign_id |-> campaign_id, milestone_id |-> "m1", milestone_title |-> "m",
     score_earned |-> score_earned, difficulty_rating |-> difficulty,
     on_time_completion |-> on_time, peer_reviews |-> peer_reviews]

\* POST /skill-activity/{wallet_address} (app/routers/users.py)
add_skill_activity(wallet_address, activity) ==
    /\ \A p \in Procs : req[p].pc = "idle"
    /\ UNCHANGED <<campaign, nfts, req, fundsDone, released, call, started>>
    /\ IF ~validate_wallet_address(wallet_address)
         THEN /\ lastResp' = Resp("skill", 400, "Invalid wallet address")
              /\ UNCHANGED user
       ELSE IF normalize_wallet_address(wallet_address) # user.wallet_address
         THEN /\ lastResp' = Resp("skill", 404, "User not found")
              /\ UNCHANGED user
       ELSE /\ user' = AddActivity(user, activity)
            /\ lastResp' =
                  [Resp("skill", 200, "Skill activity added successfully") EXCEPT
                      !.new_skill_score = user'.skill_score,
                      !.new_skill_level = user'.skill_level]

(***************************************************************************)
(* Skill NFT (app/services/nft_service.py, app/routers/users.py)           *)
(***************************************************************************)
\* a variant whose Beginner threshold is exclusive
determine_skill_nft_levelStrict(skill_score) ==
    IF skill_score >= 100000 THEN "Expert"
    ELSE IF skill_score >= 50000 THEN "Advanced"
    ELSE IF skill_score >= 20000 THEN "Intermediate"
    ELSE IF skill_score > 5000 THEN "Beginner"
    ELSE "Novice"

\* determine_skill_nft_level, on a score in hundredths: the descending scan
\* of skill_nft_levels
determine_skill_nft_level(skill_score) ==
    IF skill_score >= 100000 THEN "Expert"
    ELSE IF skill_score >= 50000 THEN "Advanced"
    ELSE IF skill_score >= 20000 THEN "Intermediate"
    ELSE IF skill_score >= 5000 THEN "Beginner"
    ELSE IF skill_score >= 0 THEN "Novice"
    ELSE "Novice"

\* whether a document of the nfts collection has a key
HasKey(nft, key) == key \in DOMAIN nft

\* find_one({"owner_wallet": wallet_address, "is_skill_nft": True}): the
\* position of the first match, or 0
FindSkillNft(collection, wallet_address) ==
    LET found == {i \in 1..Len(collection) :
                     /\ HasKey(collection[i], "is_skill_nft")
                     /\ collection[i].is_skill_nft
                     /\ collection[i].owner_wallet = wallet_address}
    IN  IF found = {} THEN 0 ELSE CHOOSE i \in found : \A j \in found : i <= j

\* skill_nft_data, the document that mint_skill_nft inserts: it has no
\* token_id key
SkillNftData(wallet_address, skill_score) ==
    [owner_wallet |-> wallet_address, tier |-> determine_skill_nft_level(skill_score),
     skill_score |-> skill_score, is_skill_nft |-> TRUE]

\* what NFTService answers: None, or the dict with the token id
NoNft(collection, effects) ==
    [found |-> FALSE, token_id |-> 0, nfts |-> collection, effects |-> effects]

\* NFTService.mint_skill_nft: the chain mint, then insert_one
service_mint_skill_nft(collection, wallet_address, skill_score, chainOK, token) ==
    IF ~chainOK
      THEN NoNft(collection, {"mint"})
      ELSE [found |-> TRUE, token_id |-> token,
            nfts |-> Append(collection, SkillNftData(wallet_address, skill_score)),
            effects |-> {"mint", "write"}]

\* NFTService.update_skill_nft: mint when the wallet has no skill NFT, else
\* the chain update when the level changed, update_one, and the answer built
\* from existing_nft["token_id"]; a missing key raises KeyError, which the
\* except clause turns into None
update_skill_nft(collection, wallet_address, new_skill_score, chainOK, token) ==
    LET i == FindSkillNft(collection, wallet_address)
        existing_nft == collection[i]
        new_skill_level == determine_skill_nft_level(new_skill_score)
        changed == existing_nft.tier # new_skill_level
        updated == [collection EXCEPT ![i].tier = new_skill_level,
                                      ![i].skill_score = new_skill_score]
    IN
    IF i = 0
      THEN service_mint_skill_nft(collection, wallet_address, new_skill_score, chainOK, token)
    ELSE IF changed /\ ~HasKey(existing_nft, "token_id")
      THEN NoNft(collection, {})
    ELSE IF changed /\ ~chainOK
      THEN NoNft(collection, {"update"})
    ELSE IF ~HasKey(existing_nft, "token_id")
      THEN NoNft(updated, {"write"})
    ELSE [found |-> TRUE, token_id |-> existing_nft.token_id, nfts |-> updated,
          effects |-> IF changed THEN {"update", "write"} ELSE {"write"}]

\* POST /mint-skill-nft/{wallet_address}
mint_skill_nft(wallet_address, chainOK, token) ==
    /\ \A p \in Procs : req[p].pc = "idle"
    /\ UNCHANGED <<campaign, req, fundsDone, released, call, started>>
    /\ IF ~validate_wallet_address(wallet_address)
         THEN /\ lastResp' = Resp("skillnft", 400, "Invalid wallet address")
              /\ UNCHANGED <<user, nfts>>
       ELSE IF normalize_wallet_address(wallet_address) # user.wallet_address
         THEN /\ lastResp' = Resp("skillnft", 404, "User not found")
              /\ UNCHANGED <<user, nfts>>
       ELSE \E nft_result \in {update_skill_nft(nfts, user.wallet_address,
                                                user.skill_score, chainOK, token)} :
            /\ nfts' = nft_result.nfts
            /\ IF ~nft_result.found
                 THEN /\ lastResp' =
                            [Resp("skillnft", 500, "Failed to mint/update skill NFT")
                                EXCEPT !.effects = nft_result.effects]
                      /\ UNCHANGED user
                 ELSE /\ user' = [user EXCEPT !.skill_nft_token_id = nft_result.token_id]
                      /\ lastResp' =
                            [Resp("skillnft", 200, "Skill NFT minted/updated successfully")
                                EXCEPT !.nft_token_id = nft_result.token_id,
                                       !.effects = nft_result.effects]

(***************************************************************************)
(* Calls of the resolver functions                                         *)
(***************************************************************************)
\* the documents and handlers, which a resolver call leaves alone
docs == <<campaign, nfts, req, lastResp, fundsDone, user, released, started>>

\* nft_service.determine_tier(amount)
DetermineTier ==
    /\ call.fn = "determine_tier" /\ call.result = Null
    /\ call' = [call EXCEPT !.result = determine_tier(call.arg)]
    /\ UNCHANGED docs

\* skill_score_service.determine_skill_level(skill_score)
DetermineSkillLevel ==
    /\ call.fn = "determine_skill_level" /\ call.result = Null
    /\ call' = [call EXCEPT !.result = determine_skill_level(call.arg)]
    /\ UNCHANGED docs

\* nft_service.determine_skill_nft_level(skill_score)
DetermineSkillNftLevel ==
    /\ call.fn = "determine_skill_nft_level" /\ call.result = Null
    /\ call' = [call EXCEPT !.result = determine_skill_nft_level(call.arg)]
    /\ UNCHANGED docs

(***************************************************************************)
(* Specifications                                                          *)
(***************************************************************************)
\* the requests made: every wallet with every index on the campaign's id, and
\* the other campaign ids with one wallet and index
FundRequests(wallets, amounts) ==
    {r \in [cid : CampaignIds, wallet : wallets, amount : amounts] :
        r.cid = CampaignId \/ r.wallet = "0xaa"}

ProofRequests ==
    {r \in [cid : CampaignIds, wallet : Callers, index : Indices] :
        r.cid = CampaignId \/ (r.wallet = "0xaa" /\ r.index = 0)}

VoteRequests ==
    {r \in [cid : CampaignIds, wallet : Callers, index : Indices, vote : BOOLEAN] :
        r.cid = CampaignId \/ (r.wallet = "0xaa" /\ r.index = 0 /\ r.vote)}

\* what the chain, the storage gateway or the NFT mint may answer (whether the
\* call succeeds) in a request; one answer where the checks stop the request
Outcomes(checks) == IF checks = NoResp THEN BOOLEAN ELSE {FALSE}

\* fund requests in flight
FundsInFlight == Cardinality({p \in Procs : req[p].pc = "fund"})

\* requests one after the other
Next ==
    \/ \E r \in FundRequests(TwoFunders, {Float(1)}) :
       \E chainOK \in Outcomes(FundChecks(r.cid, r.wallet)), mintOK \in Outcomes(FundChecks(r.cid, r.wallet)) :
          /\ fundsDone < MaxFunds
          /\ fund_campaign(r.cid, r.wallet, r.amount, chainOK, mintOK)
    \/ \E r \in ProofRequests :
       \E uploadOK \in Outcomes(ProofChecks(r.cid, r.wallet, r.index)) :
          submit_milestone_proof(r.cid, r.wallet, r.index, uploadOK)
    \/ \E r \in VoteRequests :
       \E releaseOK \in Outcomes(VoteChecks(r.cid, r.wallet, r.index)) :
          vote_on_milestone(r.cid, r.wallet, r.index, r.vote, releaseOK)

Spec == Init /\ [][Next]_vars

\* fund requests one after the other, with amounts whose sums round
FundNext ==
    \E r \in FundRequests(RawWallets, Amounts) :
    \E chainOK \in Outcomes(FundChecks(r.cid, r.wallet)), mintOK \in Outcomes(FundChecks(r.cid, r.wallet)) :
        /\ fundsDone < MaxFundsOnly
        /\ fund_campaign(r.cid, r.wallet, r.amount, chainOK, mintOK)

FundSpec == Init /\ [][FundNext]_vars

\* the wallets of the requests that overlap: two backers
RaceBackers == {"0xbb", "0xcc"}

\* requests in flight
InFlight(pc) == Cardinality({p \in Procs : req[p].pc = pc})

\* fund, proof and vote requests of the creator and two backers on the
\* campaign, each split at its find_one, in every interleaving
RaceNext ==
    \E p \in Procs :
        \/ \E w \in RaceBackers :
              /\ started < MaxStarted
              /\ fundsDone + InFlight("fund") < MaxFunds
              /\ FundLoad(p, CampaignId, w, Float(1))
        \/ \E chainOK \in BOOLEAN, mintOK \in BOOLEAN : FundComplete(p, chainOK, mintOK)
        \/ \E i \in 0..(MaxMilestones - 1) :
              /\ started < MaxStarted
              /\ ProofLoad(p, CampaignId, "0xaa", i)
        \/ \E uploadOK \in BOOLEAN : ProofComplete(p, uploadOK)
        \/ \E w \in RaceBackers, i \in 0..(MaxMilestones - 1), vote \in BOOLEAN :
              /\ started < MaxStarted
              /\ VoteLoad(p, CampaignId, w, i, vote)
        \/ \E releaseOK \in BOOLEAN : VoteComplete(p, releaseOK)

RaceSpec == Init /\ [][RaceNext]_vars

\* the resolver functions applied to one argument each
ResolverInit ==
    /\ InitDocs
    /\ call \in {[NoCall EXCEPT !.fn = "determine_tier", !.arg = a] : a \in TierInputs}
            \cup {[NoCall EXCEPT !.fn = "determine_skill_level", !.arg = x] : x \in LevelScores}
            \cup {[NoCall EXCEPT !.fn = "determine_skill_nft_level", !.arg = x] : x \in LevelScores}

ResolverNext == DetermineTier \/ DetermineSkillLevel \/ DetermineSkillNftLevel

ResolverSpec == ResolverInit /\ [][ResolverNext]_vars

\* fund requests one after the other, with a zero amount and with amounts
\* whose sum reaches the next NFT tier
FundTierNext ==
    \E r \in FundRequests(TwoFunders, TierAmounts) :
    \E chainOK \in Outcomes(FundChecks(r.cid, r.wallet)), mintOK \in Outcomes(FundChecks(r.cid, r.wallet)) :
        /\ fundsDone < MaxFundsOnly
        /\ fund_campaign(r.cid, r.wallet, r.amount, chainOK, mintOK)

FundTierSpec == Init /\ [][FundTierNext]_vars

\* the activities of the skill-activity requests: a second campaign id with
\* one kind of activity only
SkillActivities ==
    {a \in [campaign_id : {"cid1", "cid2"}, score_earned : ScoresEarned,
            difficulty : Difficulties, on_time : BOOLEAN, peer_reviews : PeerReviews] :
        a.campaign_id = "cid1" \/ (a.difficulty = "easy" /\ a.on_time /\ a.peer_reviews = <<>>)}

\* skill-activity requests one after the other
SkillNext ==
    \/ \E a \in SkillActivities :
          /\ Len(user.skill_history) < MaxHistory
          /\ add_skill_activity("0xaa", SkillHistory(a.campaign_id, a.score_earned,
                                    a.difficulty, a.on_time, a.peer_reviews))
    \/ \E w \in {"0xbb", "bad"} :
          add_skill_activity(w, SkillHistory("cid1", 100, "easy", TRUE, <<>>))

SkillSpec == Init /\ [][SkillNext]_vars

\* skill-activity and mint-skill-nft requests one after the other
SkillNftNext ==
    \/ \E a \in SkillActivities :
          /\ Len(user.skill_history) < MaxHistory
          /\ add_skill_activity("0xaa", SkillHistory(a.campaign_id, a.score_earned,
                                    a.difficulty, a.on_time, a.peer_reviews))
    \/ \E w \in {"0xaa", "0xbb", "bad"}, chainOK \in BOOLEAN, token \in TokenIds :
          mint_skill_nft(w, chainOK, token)

SkillNftSpec == Init /\ [][SkillNftNext]_vars

\* overlapping fund requests: two handlers that each read, then write
FundRaceNext ==
    \E p \in Procs :
        \/ \E r \in FundRequests(TwoFunders, {Float(1)}) :
              /\ fundsDone + FundsInFlight < MaxFundsOnly
              /\ started < MaxStarted
              /\ FundLoad(p, r.cid, r.wallet, r.amount)
        \/ \E chainOK \in BOOLEAN, mintOK \in BOOLEAN : FundComplete(p, chainOK, mintOK)

FundRaceSpec == Init /\ [][FundRaceNext]_vars

(***************************************************************************)
(* Properties                                                              *)
(***************************************************************************)
Positions == 1..Len(campaign.milestones)

\* the milestone_index values that name a milestone of the campaign
ValidIndices == 0..(Len(campaign.milestones) - 1)

AmountsBacked == [i \in 1..Len(campaign.backers) |-> campaign.backers[i].amount_backed]

IsBacker(w) == \E i \in 1..Len(campaign.backers) : campaign.backers[i].wallet_address = w

HasVoted(votes, w) == \E i \in 1..Len(votes) : votes[i].wallet_address = w

NumApprovals(votes) == Cardinality({i \in DOMAIN votes : votes[i].vote = TRUE})

ReachesThreshold(votes) == NumApprovals(votes) >= (Len(votes) \div 2) + 1

\* the step answers a vote (proof, fund) request that passed the checks and
\* ended with a success response
VoteAccepted == lastResp'.op = "vote" /\ lastResp'.code = 200
ProofAccepted == lastResp'.op = "proof" /\ lastResp'.code = 200
FundAccepted == lastResp'.op = "fund" /\ lastResp'.code = 200

\* the canonical identity of the request the step answers
Caller == normalize_wallet_address(lastResp'.request.wallet)

ReleaseFailed == "Failed to release milestone funds"

\* C1: total_backed equals the sum of amount_backed over the backers, in every
\* state reached by fund requests.
C1_TotalIsSumOfBackers == campaign.total_backed = FloatSum(AmountsBacked)

\* C2: when a vote is recorded on a submitted milestone, the milestone leaves
\* submitted in that step iff the approvals among the votes then recorded on it
\* are at least floor(total/2) + 1.
C2_LeavesSubmittedIffMajority ==
    [][VoteAccepted =>
        \A k \in Positions :
            campaign.milestones[k].status = "submitted" =>
                ((campaign'.milestones[k].status # "submitted")
                    <=> ReachesThreshold(campaign'.milestones[k].votes))]_vars

\* a first vote that approves has approved the milestone, with a second backer
\* who has not voted
C2_Witness ==
    /\ lastResp.op = "vote" /\ lastResp.code = 200
    /\ Len(campaign.backers) >= 2
    /\ \E k \in Positions :
          /\ Len(campaign.milestones[k].votes) = 1
          /\ campaign.milestones[k].votes[1].vote
          /\ campaign.milestones[k].status \in {"approved", "completed"}

\* C3: a milestone holds at most one vote per identity, and a vote by an
\* identity that already voted on it overwrites that vote's boolean in place:
\* same length, same order, every other vote unchanged.
C3_OneVotePerIdentity ==
    /\ [](\A k \in Positions :
            \A i, j \in 1..Len(campaign.milestones[k].votes) :
                campaign.milestones[k].votes[i].wallet_address =
                    campaign.milestones[k].votes[j].wallet_address => i = j)
    /\ [][VoteAccepted =>
            \A k \in Positions :
                LET old == campaign.milestones[k].votes
                    new == campaign'.milestones[k].votes
                IN  (HasVoted(old, Caller) /\ campaign'.milestones[k] # campaign.milestones[k]) =>
                        /\ Len(new) = Len(old)
                        /\ \A i \in 1..Len(old) :
                              /\ new[i].wallet_address = old[i].wallet_address
                              /\ new[i].vote = IF old[i].wallet_address = Caller
                                                 THEN lastResp'.request.vote
                                                 ELSE old[i].vote]_vars

\* the first voter changed a reject into an approve after a second voter
\* rejected: two votes, the first approves, the milestone is still submitted
C3_Witness ==
    /\ lastResp.op = "vote" /\ lastResp.code = 200
    /\ \E k \in Positions :
          /\ campaign.milestones[k].status = "submitted"
          /\ Len(campaign.milestones[k].votes) = 2
          /\ campaign.milestones[k].votes[1].vote
          /\ ~campaign.milestones[k].votes[2].vote
          /\ campaign.milestones[k].votes[1].wallet_address =
                normalize_wallet_address(lastResp.request.wallet)

\* C4: the backers list holds at most one entry per canonical identity; a fund
\* request by an identity in the list adds the amount to its entry and keeps
\* the length, one by a new identity appends exactly one entry.
C4_OneBackerPerIdentity ==
    /\ [](\A i, j \in 1..Len(campaign.backers) :
            normalize_wallet_address(campaign.backers[i].wallet_address) =
                normalize_wallet_address(campaign.backers[j].wallet_address) => i = j)
    /\ [][FundAccepted =>
            LET old == campaign.backers
                new == campaign'.backers
                amount == lastResp'.request.amount
            IN  IF IsBacker(Caller)
                  THEN /\ Len(new) = Len(old)
                       /\ \A i \in 1..Len(old) :
                             /\ new[i].wallet_address = old[i].wallet_address
                             /\ new[i].amount_backed =
                                   IF old[i].wallet_address = Caller
                                     THEN FloatAdd(old[i].amount_backed, amount)
                                     ELSE old[i].amount_backed
                  ELSE new = Append(old, [wallet_address |-> Caller,
                                          amount_backed |-> amount])]_vars

\* an account funded under its lower-case spelling after it funded before:
\* one entry holds both amounts
C4_Witness ==
    /\ lastResp.op = "fund" /\ lastResp.code = 200
    /\ lastResp.request.wallet = "0xaa"
    /\ fundsDone = 2
    /\ Len(campaign.backers) = 1
    /\ campaign.backers[1].wallet_address = "0xAa"
    /\ campaign.backers[1].amount_backed = FloatAdd(Float(1), Float(2))

\* C5: a vote request by an identity that is not a backer, or on a milestone
\* that is not submitted, is rejected and changes nothing persisted: a vote
\* request that is not rejected comes from a backer and touches a submitted
\* milestone only, and a rejected one leaves the campaign as it was.
C5_VoteRejectedUnchanged ==
    [][lastResp'.op = "vote" =>
        IF lastResp'.code = 200
          THEN /\ IsBacker(Caller)
               /\ lastResp'.request.index \in ValidIndices =>
                     campaign.milestones[lastResp'.request.index + 1].status = "submitted"
               /\ \A k \in Positions :
                     campaign'.milestones[k] # campaign.milestones[k] =>
                         campaign.milestones[k].status = "submitted"
          ELSE /\ lastResp'.code \in {400, 403, 404, 500}
               /\ campaign' = campaign
               /\ nfts' = nfts]_vars

\* an account that never funded was refused a vote on a submitted milestone
C5_Witness ==
    /\ lastResp.op = "vote"
    /\ lastResp.code = 403
    /\ campaign.backers # <<>>
    /\ \E k \in Positions : campaign.milestones[k].status = "submitted"

\* C6: a proof submission by an identity that is not the creator, or on a
\* milestone that is not pending, fails and changes nothing persisted, and a
\* milestone leaves pending only by becoming submitted in a successful proof
\* submission by the creator.
C6_ProofRejectedUnchanged ==
    [][/\ lastResp'.op = "proof" =>
            IF lastResp'.code = 200
              THEN /\ Caller = campaign.creator_wallet
                   /\ lastResp'.request.index \in ValidIndices =>
                         campaign.milestones[lastResp'.request.index + 1].status = "pending"
                   /\ \A k \in Positions :
                         campaign'.milestones[k] # campaign.milestones[k] =>
                             campaign.milestones[k].status = "pending"
              ELSE /\ lastResp'.code \in {400, 403, 404, 500}
                   /\ campaign' = campaign
                   /\ nfts' = nfts
       /\ \A k \in Positions :
            (campaign.milestones[k].status = "pending"
                /\ campaign'.milestones[k].status # "pending") =>
                    /\ campaign'.milestones[k].status = "submitted"
                    /\ ProofAccepted
                    /\ Caller = campaign.creator_wallet]_vars

\* a backer who is not the creator was refused a proof submission on a
\* pending milestone, after the creator had submitted proof for another
C6_Witness ==
    /\ lastResp.op = "proof"
    /\ lastResp.code = 403
    /\ campaign.backers # <<>>
    /\ \E k \in Positions : campaign.milestones[k].status = "pending"
    /\ \E k \in Positions : campaign.milestones[k].status = "submitted"

\* C7: when a vote brings a milestone to the threshold and the release call
\* fails, the vote is recorded, the milestone is persisted approved, and the
\* response is a success whose transaction hash is null.
C7_ReleaseFailureKeepsVote ==
    [][(lastResp'.op = "vote" /\ lastResp'.printed = ReleaseFailed) =>
        /\ lastResp'.code = 200
        /\ lastResp'.transaction_hash = Null
        /\ lastResp'.milestone_status = "approved"
        /\ \E k \in Positions :
              /\ campaign.milestones[k].status = "submitted"
              /\ campaign'.milestones[k].status = "approved"
              /\ ReachesThreshold(campaign'.milestones[k].votes)
              /\ \E i \in 1..Len(campaign'.milestones[k].votes) :
                    campaign'.milestones[k].votes[i] =
                        [wallet_address |-> Caller, vote |-> lastResp'.request.vote]
              /\ \A m \in Positions \ {k} :
                    campaign'.milestones[m] = campaign.milestones[m]]_vars

\* the release call has just failed on a vote that approved a milestone
C7_Witness ==
    /\ lastResp.op = "vote"
    /\ lastResp.printed = ReleaseFailed
    /\ \E k \in Positions :
          /\ campaign.milestones[k].status = "approved"
          /\ HasVoted(campaign.milestones[k].votes,
                      normalize_wallet_address(lastResp.request.wallet))

\* C8: the release is attempted in the vote request that reaches the
\* threshold, and the milestone is then persisted completed iff the campaign
\* has a contract address and the release returned a transaction hash,
\* and approved otherwise.
C8_CompletedIffReleased ==
    [][VoteAccepted =>
        \A k \in Positions :
            (campaign.milestones[k].status = "submitted"
                /\ ReachesThreshold(campaign'.milestones[k].votes)) =>
                    /\ campaign.contract_address # Null =>
                          (lastResp'.transaction_hash # Null
                              \/ lastResp'.printed = ReleaseFailed)
                    /\ campaign'.milestones[k].status =
                          IF campaign.contract_address # Null
                                /\ lastResp'.transaction_hash # Null
                            THEN "completed" ELSE "approved"]_vars

\* a vote reached the threshold and the release went through
C8_Witness ==
    /\ lastResp.op = "vote" /\ lastResp.code = 200
    /\ lastResp.transaction_hash = TxHash
    /\ lastResp.milestone_status = "completed"
    /\ \E k \in Positions :
          /\ campaign.milestones[k].status = "completed"
          /\ ReachesThreshold(campaign.milestones[k].votes)

\* C9: a vote or proof request whose milestone_index is not in 0..n-1, every
\* negative index included, is rejected and no milestone changes.
C9_BadIndexRejected ==
    [][/\ \A r \in ProofRequests : \A uploadOK \in BOOLEAN :
            (r.index \notin ValidIndices
                /\ submit_milestone_proof(r.cid, r.wallet, r.index, uploadOK)) =>
                    /\ lastResp'.code # 200
                    /\ campaign'.milestones = campaign.milestones
       /\ \A r \in VoteRequests : \A releaseOK \in BOOLEAN :
            (r.index \notin ValidIndices
                /\ vote_on_milestone(r.cid, r.wallet, r.index, r.vote, releaseOK)) =>
                    /\ lastResp'.code # 200
                    /\ campaign'.milestones = campaign.milestones]_vars

\* C10: an identity in the persisted backers list stays in it, and its
\* amount_backed never decreases, whatever the interleaving of fund requests.
C10_BackersOnlyGrow ==
    [][\A i \in 1..Len(campaign.backers) :
          \E j \in 1..Len(campaign'.backers) :
              /\ campaign'.backers[j].wallet_address = campaign.backers[i].wallet_address
              /\ FloatGeq(campaign'.backers[j].amount_backed,
                          campaign.backers[i].amount_backed)]_vars

\* a float greater than zero
Positive(x) == x # Float(0) /\ FloatGeq(x, Float(0))

\* the amount_backed of identity w in a backers list (zero when not listed)
BackedBy(backers, w) ==
    IF \E i \in 1..Len(backers) : backers[i].wallet_address = w
      THEN backers[CHOOSE i \in 1..Len(backers) : backers[i].wallet_address = w].amount_backed
      ELSE Float(0)

\* C11: a fund request with a zero or negative amount changes neither backers
\* nor total_backed, total_backed never decreases, and every recorded
\* amount_backed is greater than zero.
C11_OnlyPositiveAmounts ==
    /\ [](\A i \in 1..Len(campaign.backers) : Positive(campaign.backers[i].amount_backed))
    /\ [][/\ (lastResp'.op = "fund" /\ ~Positive(lastResp'.request.amount)) =>
                /\ campaign'.backers = campaign.backers
                /\ campaign'.total_backed = campaign.total_backed
          /\ FloatGeq(campaign'.total_backed, campaign.total_backed)]_vars

\* C12: when the chain call of a fund request fails, the request ends with an
\* error, backers and total_backed stay as they were, and no NFT is minted or
\* recorded.
C12_ChainFailureLeavesCampaign ==
    [][(lastResp'.op = "fund" /\ "chain" \in lastResp'.effects
            /\ lastResp'.transaction_hash = Null) =>
        /\ lastResp'.code = 500
        /\ campaign' = campaign
        /\ nfts' = nfts
        /\ lastResp'.nft_token_id = 0
        /\ lastResp'.effects = {"chain"}]_vars

\* the chain call failed for a fund request on a campaign that has a backer
C12_Witness ==
    /\ lastResp.op = "fund" /\ lastResp.code = 500
    /\ lastResp.effects = {"chain"}
    /\ campaign.backers # <<>>
    /\ nfts # <<>>

\* C13: when the chain call of a fund request succeeds and the NFT mint fails,
\* the contribution is recorded in backers and total_backed and the request
\* reports success.
C13_MintFailureKeepsFunding ==
    [][(lastResp'.op = "fund" /\ "mint" \in lastResp'.effects /\ nfts' = nfts) =>
        /\ lastResp'.code = 200
        /\ lastResp'.transaction_hash = TxHash
        /\ lastResp'.nft_token_id = 0
        /\ campaign'.total_backed =
              FloatAdd(campaign.total_backed, lastResp'.request.amount)
        /\ BackedBy(campaign'.backers, Caller) =
              FloatAdd(BackedBy(campaign.backers, Caller), lastResp'.request.amount)
        /\ \A i \in 1..Len(campaign.backers) :
              campaign.backers[i].wallet_address # Caller =>
                  campaign'.backers[i] = campaign.backers[i]]_vars

\* a funding was recorded and reported although its NFT mint failed
C13_Witness ==
    /\ lastResp.op = "fund" /\ lastResp.code = 200
    /\ lastResp.printed = "Error minting NFT"
    /\ nfts = <<>>
    /\ BackedBy(campaign.backers, normalize_wallet_address(lastResp.request.wallet))
          = lastResp.request.amount
    /\ campaign.total_backed = lastResp.request.amount

\* C14: the NFT that a successful fund request mints carries the tier of the
\* backer's cumulative amount_backed after the request (stated for requests
\* with a positive amount).
C14_TierOfCumulativeAmount ==
    [][(FundAccepted /\ Positive(lastResp'.request.amount)
            /\ Len(nfts') = Len(nfts) + 1) =>
        nfts'[Len(nfts')].tier = determine_tier(BackedBy(campaign'.backers, Caller))]_vars

UploadFailure == "Failed to upload proof to IPFS"

\* C15: when the upload of a proof submission fails, the request ends with an
\* error and the milestone stays pending with no content address; a submitted
\* milestone carries the content address that a successful upload returned.
C15_UploadFailureKeepsPending ==
    /\ [](\A k \in Positions :
            /\ campaign.milestones[k].status = "submitted" =>
                  campaign.milestones[k].proof_ipfs = IpfsHash
            /\ campaign.milestones[k].status = "pending" =>
                  campaign.milestones[k].proof_ipfs = Null)
    /\ [][(lastResp'.op = "proof" /\ lastResp'.detail = UploadFailure) =>
            /\ lastResp'.code = 500
            /\ campaign' = campaign
            /\ lastResp'.request.index \in ValidIndices =>
                  campaign'.milestones[lastResp'.request.index + 1].status = "pending"]_vars

\* the upload has just failed for the creator's proof of a pending milestone
C15_Witness ==
    /\ lastResp.op = "proof" /\ lastResp.code = 500
    /\ lastResp.detail = UploadFailure
    /\ lastResp.effects = {"upload"}
    /\ lastResp.request.index \in ValidIndices
    /\ campaign.milestones[lastResp.request.index + 1].status = "pending"
    /\ campaign.milestones[lastResp.request.index + 1].proof_ipfs = Null

\* C16: a fund, proof or vote request that ends with a validation, not-found or
\* authorization error has made no chain call, no upload and no store write.
C16_ChecksBeforeEffects ==
    [][lastResp'.code \in {400, 403, 404} =>
        /\ lastResp'.effects = {}
        /\ campaign' = campaign
        /\ nfts' = nfts]_vars

\* a proof submission was refused for a milestone that is not pending, after
\* an earlier request had uploaded and written
C16_Witness ==
    /\ lastResp.op = "proof" /\ lastResp.code = 400
    /\ lastResp.detail = "Milestone is not in pending state"
    /\ lastResp.effects = {}
    /\ \E k \in Positions : campaign.milestones[k].proof_ipfs = IpfsHash

\* C17: no milestone ever has status rejected; the statuses reached are
\* pending, submitted, approved and completed.
C17_NeverRejected ==
    \A k \in Positions :
        campaign.milestones[k].status \in {"pending", "submitted", "approved", "completed"}

\* every backer has voted to reject a milestone, and it is still submitted
C17_Witness ==
    /\ lastResp.op = "vote" /\ lastResp.code = 200
    /\ Len(campaign.backers) = 2
    /\ \E k \in Positions :
          /\ campaign.milestones[k].status = "submitted"
          /\ Len(campaign.milestones[k].votes) = 2
          /\ \A i \in 1..2 : ~campaign.milestones[k].votes[i].vote

SkillAccepted == lastResp'.op = "skill" /\ lastResp'.code = 200

\* C18: after every add_skill_activity the persisted skill_score is the score
\* of the complete history, skill_level is the level of that score,
\* total_milestones_completed is the length of the history and
\* total_campaigns_participated the number of distinct campaign ids in it.
C18_DerivedFieldsAgree ==
    (lastResp.op = "skill" /\ lastResp.code = 200) =>
        /\ user.skill_score = calculate_skill_score(user.skill_history)
        /\ user.skill_level = determine_skill_level(user.skill_score)
        /\ user.total_milestones_completed = Len(user.skill_history)
        /\ user.total_campaigns_participated =
              Cardinality({user.skill_history[i].campaign_id :
                              i \in 1..Len(user.skill_history)})
        /\ lastResp.new_skill_score = user.skill_score
        /\ lastResp.new_skill_level = user.skill_level

\* two activities of one campaign: two milestones, one campaign, and a score
\* that the second activity changed
C18_Witness ==
    /\ lastResp.op = "skill" /\ lastResp.code = 200
    /\ Len(user.skill_history) = 2
    /\ user.total_milestones_completed = 2
    /\ user.total_campaigns_participated = 1
    /\ user.skill_score # calculate_skill_score(<<user.skill_history[1]>>)
    /\ user.skill_level = "Expert"

\* the score of the claim's formula, in hundredths: the sum over the entries
\* of score_earned x multiplier(difficulty) x bonus x mean / 5, damped above
\* 1000 and rounded to two decimals; multiplier is a table in tenths
FormulaSum(history, multiplier) ==
    SumSeq([i \in 1..Len(history) |->
        LET e == history[i]
            mean_num == IF e.peer_reviews = <<>> THEN 1 ELSE SumSeq(e.peer_reviews)
            mean_den == IF e.peer_reviews = <<>> THEN 1 ELSE Len(e.peer_reviews)
        IN  RoundDiv(e.score_earned * multiplier[e.difficulty_rating]
                        * (IF e.on_time_completion THEN 11 ELSE 10) * mean_num * 20,
                     mean_den)])

FormulaScore(history, multiplier) ==
    LET sum == FormulaSum(history, multiplier) IN
    IF sum > 1000 * 10000
      THEN (1000 * 100) + RoundDiv(Log(sum - (999 * 10000)), 10000)
      ELSE RoundDiv(sum, 100)

\* easy 1.0, medium 1.5, hard 2.0, any other value 1.0
ExactMultiplier ==
    [d \in Difficulties |->
        IF d = "easy" THEN 10 ELSE IF d = "medium" THEN 15 ELSE IF d = "hard" THEN 20 ELSE 10]

\* the same, with the difficulty compared without regard to case
CaselessMultiplier ==
    [d \in Difficulties |->
        IF d = "easy" THEN 10 ELSE IF d = "medium" THEN 15
        ELSE IF d \in {"hard", "Hard"} THEN 20 ELSE 10]

ExampleEntry ==
    SkillHistory("cid1", 100, "hard", TRUE, <<5, 5>>)

\* C19 as stated: skill_score follows the formula with the multipliers easy
\* 1.0, medium 1.5, hard 2.0 and 1.0 for any other value; the single entry
\* {100, hard, on time, [5,5]} scores 220.0 and a raw sum of 1500 gives 1621.17.
C19_ScoreFormula ==
    (lastResp.op = "skill" /\ lastResp.code = 200) =>
        /\ user.skill_score = FormulaScore(user.skill_history, ExactMultiplier)
        /\ user.skill_history = <<ExampleEntry>> => user.skill_score = 22000
        /\ FormulaSum(user.skill_history, ExactMultiplier) = 1500 * 10000 =>
              user.skill_score = 162117

\* C19 as amended: the difficulty is compared without regard to case, and a
\* raw sum of 1500 gives 1621.66.
C19_ScoreFormulaAmended ==
    (lastResp.op = "skill" /\ lastResp.code = 200) =>
        /\ user.skill_score = FormulaScore(user.skill_history, CaselessMultiplier)
        /\ user.skill_history = <<ExampleEntry>> => user.skill_score = 22000
        /\ FormulaSum(user.skill_history, CaselessMultiplier) = 1500 * 10000 =>
              user.skill_score = 162166

\* a history whose raw sum is 1500: one medium and one capitalised hard entry
C19_Witness ==
    /\ lastResp.op = "skill" /\ lastResp.code = 200
    /\ Len(user.skill_history) = 2
    /\ user.skill_history[1].difficulty_rating = "medium"
    /\ user.skill_history[2].difficulty_rating = "Hard"
    /\ FormulaSum(user.skill_history, CaselessMultiplier) = 1500 * 10000
    /\ user.skill_score = 162166

\* C20: the skill_score never decreases when an activity is appended.
C20_ScoreNeverDecreases ==
    [][SkillAccepted => user'.skill_score >= user.skill_score]_vars

\* the levels from the lowest to the highest
LevelRank ==
    [Novice |-> 0, Beginner |-> 1, Intermediate |-> 2, Advanced |-> 3, Expert |-> 4]

\* C21: the level of a score is Expert from 1000, Advanced from 500 to below
\* 1000, Intermediate from 200 to below 500, Beginner from 50 to below 200 and
\* Novice below 50; 199.99 is Beginner, 200.0 Intermediate, 1000.0 Expert; a
\* larger score never has a lower level.
C21_LevelStaircase ==
    (call.fn = "determine_skill_level" /\ call.result # Null) =>
        /\ call.result \in DOMAIN LevelRank
        /\ call.result = "Expert" <=> call.arg >= 100000
        /\ call.result = "Advanced" <=> (call.arg >= 50000 /\ call.arg < 100000)
        /\ call.result = "Intermediate" <=> (call.arg >= 20000 /\ call.arg < 50000)
        /\ call.result = "Beginner" <=> (call.arg >= 5000 /\ call.arg < 20000)
        /\ call.result = "Novice" <=> call.arg < 5000
        /\ call.arg = 19999 => call.result = "Beginner"
        /\ call.arg = 20000 => call.result = "Intermediate"
        /\ call.arg = 100000 => call.result = "Expert"
        /\ \A x \in LevelScores :
              x <= call.arg =>
                  LevelRank[determine_skill_level(x)] <= LevelRank[call.result]

\* the score 200.0, on the boundary, resolved to Intermediate
C21_Witness ==
    /\ call.fn = "determine_skill_level"
    /\ call.arg = 20000
    /\ call.result = "Intermediate"

\* the tiers from the lowest to the highest, and their thresholds in tenths
TierRank ==
    [Supporter |-> 0, Bronze |-> 1, Silver |-> 2, Gold |-> 3, Platinum |-> 4, Diamond |-> 5]

TierTenths ==
    [Bronze |-> 1, Silver |-> 10, Gold |-> 50, Platinum |-> 100, Diamond |-> 500]

Meets(amount, tier) == FloatGeq(amount, Float(TierTenths[tier]))

\* C22: the tier of an amount is the one with the highest threshold that the
\* amount meets or exceeds, and Supporter below 0.1; 1.0 is Silver and an
\* amount just below 1.0 is Bronze; a larger amount never has a lower tier.
C22_HighestTierMet ==
    (call.fn = "determine_tier" /\ call.result # Null) =>
        /\ call.result \in DOMAIN TierRank
        /\ call.result = "Supporter" <=> ~Meets(call.arg, "Bronze")
        /\ call.result # "Supporter" =>
              /\ Meets(call.arg, call.result)
              /\ \A t \in DOMAIN TierTenths :
                    Meets(call.arg, t) => TierTenths[t] <= TierTenths[call.result]
        /\ call.arg = Float(10) => call.result = "Silver"
        /\ call.arg = FloatPred(Float(10), 3) => call.result = "Bronze"
        /\ \A a \in TierInputs :
              FloatGeq(call.arg, a) =>
                  TierRank[determine_tier(a)] <= TierRank[call.result]

\* the amount 1.0, on the threshold, resolved to Silver
C22_Witness ==
    /\ call.fn = "determine_tier"
    /\ call.arg = Float(10)
    /\ call.result = "Silver"

\* C23: the milestone at position i carries index i (from 0), and no request
\* changes a milestone's index, title or amount, or the number or order of
\* the milestones.
C23_MilestoneIndicesFixed ==
    [][/\ \A k \in Positions : campaign.milestones[k].index = k - 1
       /\ Len(campaign'.milestones) = Len(campaign.milestones)
       /\ \A k \in Positions :
             /\ campaign'.milestones[k].index = campaign.milestones[k].index
             /\ campaign'.milestones[k].title = campaign.milestones[k].title
             /\ campaign'.milestones[k].amount = campaign.milestones[k].amount]_vars

\* two milestones, the second completed after a proof and a vote, still
\* carrying the indices 0 and 1
C23_Witness ==
    /\ Len(campaign.milestones) = 2
    /\ campaign.milestones[2].status = "completed"
    /\ campaign.milestones[2].votes # <<>>
    /\ campaign.milestones[1].index = 0
    /\ campaign.milestones[2].index = 1

\* the order of the statuses
StatusRank == [pending |-> 0, submitted |-> 1, approved |-> 2, completed |-> 3]

\* C24: the persisted status of a milestone never moves backward in the order
\* pending, submitted, approved, completed, in every interleaving of vote
\* and proof requests.
C24_StatusNeverBackward ==
    [][\A k \in Positions :
          StatusRank[campaign'.milestones[k].status]
              >= StatusRank[campaign.milestones[k].status]]_vars

\* C25: release_milestone is called at most once for a milestone, in every
\* interleaving of vote requests.
C25_ReleaseAtMostOnce == \A k \in DOMAIN released : released[k] <= 1

\* the wallets of a backers list
WalletsOf(backers) == {backers[i].wallet_address : i \in 1..Len(backers)}

\* C26: a fund or vote request writes back the whole array computed from the
\* document it read: after a fund request the persisted backers and
\* total_backed are those it read plus its own contribution, after a vote
\* request the persisted milestones are those it read with its own vote;
\* what others wrote in between is gone.
C26_LastWriterWins ==
    [][\A p \in Procs :
          LET doc == req[p].doc
              w == normalize_wallet_address(req[p].request.wallet)
              k == req[p].request.index + 1
          IN
          /\ (req[p].pc = "fund" /\ req'[p].pc = "idle" /\ lastResp'.code = 200) =>
                /\ campaign'.total_backed =
                      FloatAdd(doc.total_backed, req[p].request.amount)
                /\ WalletsOf(campaign'.backers) = WalletsOf(doc.backers) \cup {w}
                /\ Len(campaign'.backers) = Cardinality(WalletsOf(doc.backers) \cup {w})
                /\ \A u \in WalletsOf(campaign'.backers) :
                      BackedBy(campaign'.backers, u) =
                          IF u = w
                            THEN FloatAdd(BackedBy(doc.backers, u), req[p].request.amount)
                            ELSE BackedBy(doc.backers, u)
          /\ (req[p].pc = "vote" /\ req'[p].pc = "idle") =>
                /\ Len(campaign'.milestones) = Len(doc.milestones)
                /\ \A j \in 1..Len(doc.milestones) :
                      j # k => campaign'.milestones[j] = doc.milestones[j]
                /\ WalletsOf(campaign'.milestones[k].votes) =
                      WalletsOf(doc.milestones[k].votes) \cup {w}
                /\ \A i \in 1..Len(campaign'.milestones[k].votes) :
                      LET v == campaign'.milestones[k].votes[i] IN
                      IF v.wallet_address = w
                        THEN v.vote = req[p].request.vote
                        ELSE v \in {doc.milestones[k].votes[j] :
                                       j \in 1..Len(doc.milestones[k].votes)}]_vars

\* two fund requests of 0.1 were both written, and the campaign holds one
\* backer and 0.1; the milestone was released twice and holds one vote
C26_Witness ==
    /\ fundsDone = 2
    /\ Len(campaign.backers) = 1
    /\ campaign.total_backed = Float(1)
    /\ released[1] = 2
    /\ Len(campaign.milestones[1].votes) = 1

\* C27: a milestone persisted as approved keeps its status, its votes and
\* its proof through every later fund, proof and vote request, and no
\* release is made for it again.
C27_ApprovedIsFinal ==
    [][\A k \in Positions :
          campaign.milestones[k].status = "approved" =>
              /\ campaign'.milestones[k] = campaign.milestones[k]
              /\ released'[k] = released[k]]_vars

\* a vote on a milestone that is approved after a failed release, rejected
C27_Witness ==
    /\ \E k \in Positions :
          /\ campaign.milestones[k].status = "approved"
          /\ released[k] = 1
          /\ lastResp.request = NoReq
    /\ lastResp.op = "vote"
    /\ lastResp.detail = "Milestone is not in submitted state"

\* a fund step whose NFT mint was attempted and left no record
MintFailed == lastResp'.op = "fund" /\ "mint" \in lastResp'.effects /\ nfts' = nfts

\* C28 as stated: a failure of the NFT mint aborts the fund request: it is
\* reported as failed and neither the backer's amount nor total_backed nor an
\* NFT record is persisted.
C28_MintFailureAborts ==
    [][MintFailed =>
        /\ lastResp'.code # 200
        /\ campaign' = campaign
        /\ nfts' = nfts]_vars

\* C28 as amended: a failure of the NFT mint does not abort the fund request:
\* it is reported as successful without a token id, the backer's amount and
\* total_backed have grown by the write made before the mint, and only the
\* NFT record is missing.
C28_MintFailureDoesNotAbort ==
    [][MintFailed =>
        /\ lastResp'.code = 200
        /\ lastResp'.detail = "Campaign funded successfully"
        /\ lastResp'.nft_token_id = 0
        /\ lastResp'.printed = "Error minting NFT"
        /\ lastResp'.effects = {"chain", "write", "mint"}
        /\ Len(nfts') = Len(nfts)
        /\ campaign'.total_backed # campaign.total_backed
        /\ FloatGeq(campaign'.total_backed, campaign.total_backed)
        /\ BackedBy(campaign'.backers, Caller) # BackedBy(campaign.backers, Caller)
        /\ FloatGeq(BackedBy(campaign'.backers, Caller),
                    BackedBy(campaign.backers, Caller))]_vars

\* a backer who holds an NFT from a first funding funded again, the second
\* mint failed, and the second amount is in the campaign
C28_Witness ==
    /\ lastResp.op = "fund" /\ lastResp.code = 200
    /\ lastResp.printed = "Error minting NFT"
    /\ Len(nfts) = 1
    /\ Len(campaign.backers) = 1
    /\ fundsDone = 2
    /\ nfts[1].owner_wallet = campaign.backers[1].wallet_address
    /\ campaign.backers[1].amount_backed # nfts[1].amount_backed

\* C29: a fund request makes the NFT mint call only when the backer has no
\* NFT record yet or the tier resolved for the request differs from the tier
\* on record; a repeated funding with an unchanged tier makes no mint call.
C29_MintOnlyOnChange ==
    [][(lastResp'.op = "fund" /\ "mint" \in lastResp'.effects) =>
        \A i \in 1..Len(nfts) :
            nfts[i].owner_wallet = Caller =>
                nfts[i].tier # determine_tier(lastResp'.request.amount)]_vars

\* the skill NFT records of a wallet
SkillNftsOf(collection, w) ==
    {i \in 1..Len(collection) :
        HasKey(collection[i], "is_skill_nft") /\ collection[i].owner_wallet = w}

\* C30: of the mint-skill-nft requests for a wallet, the first whose mint goes
\* through stores one skill NFT record and the token id on the user; every
\* later request succeeds, keeps exactly one record for the wallet and
\* returns that token id.
C30_SkillNftMintedOnce ==
    [][(lastResp'.op = "skillnft" /\ lastResp'.code \notin {400, 404}) =>
        IF SkillNftsOf(nfts, user.wallet_address) = {}
          THEN "mint" \in lastResp'.effects
               /\ (lastResp'.code = 200 =>
                      /\ Cardinality(SkillNftsOf(nfts', user.wallet_address)) = 1
                      /\ user'.skill_nft_token_id = lastResp'.nft_token_id)
          ELSE /\ lastResp'.code = 200
               /\ Cardinality(SkillNftsOf(nfts', user.wallet_address)) = 1
               /\ lastResp'.nft_token_id = user.skill_nft_token_id
               /\ user'.skill_nft_token_id = user.skill_nft_token_id]_vars
\* C31: in every state of a user, a registered user without activity
\* included, the stored skill_level is determine_skill_level of the stored
\* skill_score, and the skill_level and next_level_threshold reported by
\* get_skill_score_data belong to the same level.
C31_StoredLevelIsDerived ==
    /\ user.skill_level = determine_skill_level(user.skill_score)
    /\ \E data \in {get_skill_score_data(user)} :
          data.next_level_threshold = thresholds[data.skill_level]

\* C32: for every score, negative scores and scores exactly on a threshold
\* included, determine_skill_nft_level returns the level that
\* determine_skill_level returns.
C32_LaddersAgree ==
    (call.fn = "determine_skill_nft_level" /\ call.result # Null) =>
        call.result = determine_skill_level(call.arg)

\* a negative score resolved by the NFT ladder
C32_Witness ==
    /\ call.fn = "determine_skill_nft_level"
    /\ call.arg < 0
    /\ call.result = "Novice"

\* C33: with requests one after the other, a submitted milestone has approvals
\* for at most half of its recorded votes, and an approved or completed
\* milestone has at least floor(total_votes / 2) + 1 approvals among its
\* recorded votes.
C33_StatusMatchesTally ==
    \A k \in Positions :
        \E m \in {campaign.milestones[k]} :
            /\ m.status = "submitted" => 2 * NumApprovals(m.votes) <= Len(m.votes)
            /\ m.status \in {"approved", "completed"} =>
                  NumApprovals(m.votes) >= (Len(m.votes) \div 2) + 1

\* a submitted milestone with a tie of one approval and one rejection next to
\* a completed milestone
C33_Witness ==
    /\ \E k \in Positions :
          /\ campaign.milestones[k].status = "submitted"
          /\ Len(campaign.milestones[k].votes) = 2
          /\ NumApprovals(campaign.milestones[k].votes) = 1
    /\ \E k \in Positions :
          /\ campaign.milestones[k].status = "completed"
          /\ Len(campaign.milestones[k].votes) >= 1

\* C34: in every state, for requests one after the other and for every
\* interleaving of fund and vote requests, every vote recorded on a milestone
\* of the campaign belongs to an identity among the campaign's persisted
\* backers.
C34_VotersAreBackers ==
    \A k \in Positions :
        \A i \in 1..Len(campaign.milestones[k].votes) :
            IsBacker(campaign.milestones[k].votes[i].wallet_address)

\* the handler p ends a request of the given kind in the step
Completes(p, pc) == req[p].pc = pc /\ req'[p].pc = "idle"

ProofMatchesStatus(m) ==
    /\ m.status = "pending" => (m.votes = <<>> /\ m.proof_ipfs = Null)
    /\ m.status \in {"submitted", "approved", "completed"} => m.proof_ipfs # Null

\* C36: in every state a pending milestone has no votes and no proof content
\* address and a submitted, approved or completed milestone has a proof
\* content address; a vote is only added to a milestone whose proof was
\* submitted: the milestone the vote request read has the proof, and so has
\* every persisted milestone whose votes a step changes.
C36_ProofBeforeVotes ==
    /\ [](\A k \in Positions : ProofMatchesStatus(campaign.milestones[k]))
    /\ [][/\ \A p \in Procs :
                Completes(p, "vote") =>
                    \E m \in {req[p].doc.milestones[PyIndex(Len(req[p].doc.milestones),
                                                             req[p].request.index)]} :
                        m.status = "submitted" /\ m.proof_ipfs # Null
          /\ \A k \in Positions :
                Len(campaign'.milestones[k].votes) > Len(campaign.milestones[k].votes) =>
                    campaign'.milestones[k].proof_ipfs # Null]_vars

\* a vote just recorded on a milestone that holds its proof, next to a
\* milestone that is still pending
C36_Witness ==
    /\ lastResp.op = "vote" /\ lastResp.code = 200
    /\ \E k \in Positions :
          /\ campaign.milestones[k].votes # <<>>
          /\ campaign.milestones[k].proof_ipfs = IpfsHash
    /\ \E k \in Positions : campaign.milestones[k].status = "pending"

\* C37: the campaign's status is active in every state: no fund, proof or
\* vote request changes it, also not when every milestone is completed or
\* total_backed has reached goal_amount; no fund request is rejected with
\* 'Campaign is not active', and total_backed may exceed goal_amount.
C37_AlwaysActive ==
    /\ [](campaign.status = "active")
    /\ [][/\ campaign'.status = campaign.status
          /\ lastResp'.detail # "Campaign is not active"]_vars

\* a fund request accepted on a campaign whose milestones are all completed,
\* which takes total_backed above goal_amount
C37_Witness ==
    /\ campaign.status = "active"
    /\ \A k \in Positions : campaign.milestones[k].status = "completed"
    /\ lastResp.op = "fund" /\ lastResp.code = 200
    /\ FloatGeq(campaign.total_backed, campaign.goal_amount)
    /\ campaign.total_backed # campaign.goal_amount

====
